---- MODULE Spec2Model ----
(***************************************************************************)
(* Univera no-code platform: the schema store (routers/schemas.py), the    *)
(* record engine (crud_router.py) and the tables they work on (models.py), *)
(* as a state machine.  Every handler reads the tables in one step and     *)
(* commits its writes in a later step, which is what a SQLAlchemy session  *)
(* on a READ COMMITTED store does: rows are loaded by the queries and the  *)
(* pending INSERT/UPDATE statements are flushed by db.commit().            *)
(***************************************************************************)
EXTENDS Integers, Sequences, FiniteSets, TLC

\* ------------------------------------------------------------------ bounds
MaxSnapshots == 3
MaxRecords == 2
MaxLogs == 2
MaxFields == 2
MaxBound == 2

\* ------------------------------------------------------------ input sets
Req == {1, 2}
Tenants == {"A", "B"}
Entities == {"item"}
StandardRoles == <<"admin", "user">>
Roles == {"admin", "user", "viewer"}
Actions == {"read", "create", "update", "delete"}

\* ---------------------------------------------------------- JSON values
\* A payload value is a tagged value; n carries the number (a float is
\* kept in tenths), s the text.
NoBound == -1
S(x) == [k |-> "str", n |-> 0, s |-> x]
I(x) == [k |-> "int", n |-> x, s |-> ""]
F(x) == [k |-> "float", n |-> x, s |-> ""]
B(x) == [k |-> "bool", n |-> IF x THEN 1 ELSE 0, s |-> ""]
Null == [k |-> "null", n |-> 0, s |-> ""]

Digits == <<"0", "1", "2", "3", "4", "5", "6", "7", "8", "9">>

RECURSIVE NatStr(_)
NatStr(n) == IF n < 10 THEN Digits[n + 1] ELSE NatStr(n \div 10) \o Digits[(n % 10) + 1]

IntStr(n) == IF n < 0 THEN "-" \o NatStr(-n) ELSE NatStr(n)

FloatStr(n) == IF n < 0 THEN "-" \o NatStr((-n) \div 10) \o "." \o NatStr((-n) % 10)
               ELSE NatStr(n \div 10) \o "." \o NatStr(n % 10)

\* Python's str(value), the right-hand side of the uniqueness comparison.
PyStr(v) ==
    CASE v.k = "str" -> v.s
      [] v.k = "int" -> IntStr(v.n)
      [] v.k = "float" -> FloatStr(v.n)
      [] v.k = "bool" -> (IF v.n = 1 THEN "True" ELSE "False")
      [] OTHER -> "None"

\* The store's text form of a JSON value (JSONB ->>); a JSON null gives the
\* SQL NULL, which AsTextEq turns into "no match".
AsText(v) ==
    CASE v.k = "str" -> v.s
      [] v.k = "int" -> IntStr(v.n)
      [] v.k = "float" -> FloatStr(v.n)
      [] v.k = "bool" -> (IF v.n = 1 THEN "true" ELSE "false")
      [] OTHER -> ""

\* Record.data[name].astext == text
AsTextEq(data, name, text) ==
    /\ name \in DOMAIN data
    /\ data[name].k # "null"
    /\ AsText(data[name]) = text

\* The number a Python comparison sees (True is 1), in tenths.
Num(v) == IF v.k = "float" THEN v.n ELSE 10 * v.n

\* isinstance(value, ...) of the four value kinds
IsStr(v) == v.k = "str"
IsInt(v) == v.k \in {"int", "bool"}
IsIntOrFloat(v) == v.k \in {"int", "bool", "float"}
IsBool(v) == v.k = "bool"

IsoDates == {"2024-01-01"}

\* ------------------------------------------------------ field definitions
Field(name, type, required, unique, min, max) ==
    [name |-> name, type |-> type, required |-> required, unique |-> unique,
     min |-> min, max |-> max]

\* A payload is the request's JSON object, keys in the order sent.
Keys(payload) == {payload[i][1] : i \in 1..Len(payload)}
Get(payload, name) == payload[CHOOSE i \in 1..Len(payload) : payload[i][1] = name][2]

\* The dict stored in the JSONB column: key order is not kept.
Jsonb(payload) == [name \in Keys(payload) |-> Get(payload, name)]

FieldsMap(schema_fields, name) ==
    schema_fields[CHOOSE i \in 1..Len(schema_fields) :
        /\ schema_fields[i].name = name
        /\ \A j \in (i + 1)..Len(schema_fields) : schema_fields[j].name # name]

Ok == [err |-> "ok", field |-> ""]
Err(kind, name) == [err |-> kind, field |-> name]

\* ValidateItem as it would be if the bounds were tested for truth, which
\* takes a bound of 0 for no bound, instead of "is not None".
ValidateItemTruthy(schema_fields, key, value) ==
    IF \A i \in 1..Len(schema_fields) : schema_fields[i].name # key
    THEN Err("unknown", key)
    ELSE LET f_def == FieldsMap(schema_fields, key)
             f_type == f_def.type
             numeric == f_type \in {"integer", "float"}
         IN IF f_type = "string" /\ ~IsStr(value) THEN Err("type", key)
            ELSE IF f_type = "integer" /\ ~IsInt(value) THEN Err("type", key)
            ELSE IF f_type = "float" /\ ~IsIntOrFloat(value) THEN Err("type", key)
            ELSE IF f_type = "boolean" /\ ~IsBool(value) THEN Err("type", key)
            ELSE IF f_type = "date" /\ ~(IsStr(value) /\ value.s \in IsoDates)
                 THEN Err("type", key)
            ELSE IF f_type = "file" /\ ~IsStr(value) THEN Err("type", key)
            ELSE IF numeric /\ f_def.min \notin {NoBound, 0} /\ Num(value) < 10 * f_def.min
                 THEN Err("min", key)
            ELSE IF numeric /\ f_def.max \notin {NoBound, 0} /\ Num(value) > 10 * f_def.max
                 THEN Err("max", key)
            ELSE Ok

\* The checks made on one (key, value) of the payload, in the code's order.
ValidateItem(schema_fields, key, value) ==
    IF \A i \in 1..Len(schema_fields) : schema_fields[i].name # key
    THEN Err("unknown", key)
    ELSE LET f_def == FieldsMap(schema_fields, key)
             f_type == f_def.type
             numeric == f_type \in {"integer", "float"}
         IN IF f_type = "string" /\ ~IsStr(value) THEN Err("type", key)
            ELSE IF f_type = "integer" /\ ~IsInt(value) THEN Err("type", key)
            ELSE IF f_type = "float" /\ ~IsIntOrFloat(value) THEN Err("type", key)
            ELSE IF f_type = "boolean" /\ ~IsBool(value) THEN Err("type", key)
            ELSE IF f_type = "date" /\ ~(IsStr(value) /\ value.s \in IsoDates)
                 THEN Err("type", key)
            ELSE IF f_type = "file" /\ ~IsStr(value) THEN Err("type", key)
            ELSE IF numeric /\ f_def.min # NoBound /\ Num(value) < 10 * f_def.min
                 THEN Err("min", key)
            ELSE IF numeric /\ f_def.max # NoBound /\ Num(value) > 10 * f_def.max
                 THEN Err("max", key)
            ELSE Ok

RECURSIVE ValidateItems(_, _, _)
ValidateItems(schema_fields, payload, i) ==
    IF i > Len(payload) THEN Ok
    ELSE LET r == ValidateItem(schema_fields, payload[i][1], payload[i][2])
         IN IF r # Ok THEN r ELSE ValidateItems(schema_fields, payload, i + 1)

RECURSIVE MissingRequired(_, _, _)
MissingRequired(schema_fields, payload, i) ==
    IF i > Len(schema_fields) THEN Ok
    ELSE IF schema_fields[i].required /\ schema_fields[i].name \notin Keys(payload)
         THEN Err("missing", schema_fields[i].name)
         ELSE MissingRequired(schema_fields, payload, i + 1)

\* ValidateData as it would be with the payload's items checked before the
\* required fields.
ValidateDataItemsFirst(schema_fields, payload) ==
    LET v == ValidateItems(schema_fields, payload, 1)
    IN IF v # Ok THEN v ELSE MissingRequired(schema_fields, payload, 1)

\* _validate_data: the first violation, or Ok.
ValidateData(schema_fields, payload) ==
    LET m == MissingRequired(schema_fields, payload, 1)
    IN IF m # Ok THEN m ELSE ValidateItems(schema_fields, payload, 1)

\* ------------------------------------------------------------------ state
VARIABLES
    schemas,    \* table entity_schemas, rows in insertion order
    versions,   \* table entity_schema_versions
    perms,      \* table permissions
    records,    \* table records; a deleted row keeps its id and has live = FALSE
    logs,       \* table record_logs, in commit order
    routes,     \* entity names that have a CRUD router on the app
    req,        \* per request in flight: its position and what its session loaded
    last        \* the last step taken: the request, its arguments and its response

vars == <<schemas, versions, perms, records, logs, routes, req, last>>
tables == <<schemas, versions, perms, records, logs>>

AllTrue == [a \in Actions |-> TRUE]
AllFalse == [a \in Actions |-> FALSE]

Idle == [pc |-> "idle", tenant |-> "", role |-> "", entity |-> "", row |-> 0,
         ver |-> 0, fields |-> <<>>, perm |-> 0, flags |-> AllTrue, target |-> "",
         tver |-> 0, rec |-> 0, payload |-> <<>>, before |-> <<>>, had |-> <<>>,
         hadflags |-> AllTrue]

NoStep == [op |-> "none", p |-> 0, tenant |-> "", role |-> "", entity |-> "",
           kind |-> "none", fields |-> <<>>, version |-> 0, target |-> "",
           tver |-> 0, flags |-> AllTrue, rid |-> 0, payload |-> <<>>, ids |-> {}, row |-> 0,
           err |-> Ok]

\* The step of request p: op with the caller (t, r) on entity e, answered kind;
\* more holds the arguments and results the step has beyond these.
Step(op, p, t, r, e, kind, more) ==
    more @@ [op |-> op, p |-> p, tenant |-> t, role |-> r, entity |-> e,
             kind |-> kind] @@ NoStep

Init ==
    /\ schemas = <<>>
    /\ versions = <<>>
    /\ perms = <<>>
    /\ records = <<>>
    /\ logs = <<>>
    /\ routes = {}
    /\ req = [p \in Req |-> Idle]
    /\ last = NoStep

\* Requests in flight that will still append a history snapshot.
SnapshotWriters ==
    Cardinality({q \in Req : req[q].pc \in {"declare_add", "declare_seed",
                                              "revise_commit", "rollback_commit"}})

\* db.query(EntitySchema).filter(tenant, entity_name): the matching rows
SchemaRows(t, e) ==
    {i \in 1..Len(schemas) : schemas[i].tenant = t /\ schemas[i].entity = e}

\* db.query(EntitySchemaVersion) as a filter on the version number alone
\* would be.
VersionRowsAnyOwner(t, e, v) == {i \in 1..Len(versions) : versions[i].version = v}

\* db.query(EntitySchemaVersion).filter(tenant, entity_name, version)
VersionRows(t, e, v) ==
    {i \in 1..Len(versions) :
        versions[i].tenant = t /\ versions[i].entity = e /\ versions[i].version = v}

\* db.query(EntityPermission).filter(tenant, entity_name, role)
PermRows(t, e, role) ==
    {i \in 1..Len(perms) :
        perms[i].tenant = t /\ perms[i].entity = e /\ perms[i].role = role}

\* IsAdmin as get_current_active_user, which admits every role, would be.
IsActiveUser(r) == r \in Roles

\* get_admin_user
IsAdmin(r) == r = "admin"

Respond(p, step) ==
    /\ req' = [req EXCEPT ![p] = Idle]
    /\ last' = step

\* ------------------------------------------------------------ schema store
\* CreateEntitySchema as it would be without the duplicate check.
CreateEntitySchemaUnchecked(p, t, r, e, fields) ==
    /\ req[p].pc = "idle"
    /\ Len(versions) + SnapshotWriters < MaxSnapshots
    /\ UNCHANGED <<tables, routes>>
    /\ IF ~IsAdmin(r)
       THEN Respond(p, Step("declare", p, t, r, e, "forbidden", [fields |-> fields]))
       ELSE /\ req' = [req EXCEPT ![p] = [Idle EXCEPT !.pc = "declare_add",
                           !.tenant = t, !.role = r, !.entity = e, !.fields = fields]]
            /\ last' = Step("declare", p, t, r, e, "pending", [fields |-> fields])

\* create_entity_schema up to the duplicate check
CreateEntitySchema(p, t, r, e, fields) ==
    /\ req[p].pc = "idle"
    /\ Len(versions) + SnapshotWriters < MaxSnapshots
    /\ UNCHANGED <<tables, routes>>
    /\ IF ~IsAdmin(r)
       THEN Respond(p, Step("declare", p, t, r, e, "forbidden", [fields |-> fields]))
       ELSE IF SchemaRows(t, e) # {}
       THEN Respond(p, Step("declare", p, t, r, e, "conflict", [fields |-> fields]))
       ELSE /\ req' = [req EXCEPT ![p] = [Idle EXCEPT !.pc = "declare_add",
                           !.tenant = t, !.role = r, !.entity = e, !.fields = fields]]
            /\ last' = Step("declare", p, t, r, e, "pending", [fields |-> fields])

\* create_entity_schema: the first db.commit() and the refresh
CreateEntitySchemaAdd(p) ==
    /\ req[p].pc = "declare_add"
    /\ schemas' = Append(schemas, [tenant |-> req[p].tenant, entity |-> req[p].entity,
                                    fields |-> req[p].fields, version |-> 1])
    /\ req' = [req EXCEPT ![p].pc = "declare_seed", ![p].row = Len(schemas) + 1,
                          ![p].ver = 1]
    /\ last' = Step("declare", p, req[p].tenant, req[p].role, req[p].entity, "added",
                    [fields |-> req[p].fields, row |-> Len(schemas) + 1])
    /\ UNCHANGED <<versions, perms, records, logs, routes>>

SeedPermissions(t, e) ==
    [i \in 1..Len(StandardRoles) |->
        [tenant |-> t, entity |-> e, role |-> StandardRoles[i], can |-> AllTrue]]

\* create_entity_schema: the snapshot, the default permissions, the second
\* db.commit() and the registration of the entity's router
CreateEntitySchemaSeed(p) ==
    /\ req[p].pc = "declare_seed"
    /\ versions' = Append(versions, [tenant |-> req[p].tenant, entity |-> req[p].entity,
                                      version |-> req[p].ver, fields |-> req[p].fields])
    /\ perms' = perms \o SeedPermissions(req[p].tenant, req[p].entity)
    /\ routes' = routes \cup {req[p].entity}
    /\ Respond(p, Step("declare", p, req[p].tenant, req[p].role, req[p].entity, "ok",
                       [fields |-> req[p].fields, version |-> req[p].ver,
                        row |-> req[p].row]))
    /\ UNCHANGED <<schemas, records, logs>>

\* update_entity_schema up to the load of the current schema
UpdateEntitySchema(p, t, r, e, fields) ==
    /\ req[p].pc = "idle"
    /\ Len(versions) + SnapshotWriters < MaxSnapshots
    /\ UNCHANGED <<tables, routes>>
    /\ IF ~IsAdmin(r)
       THEN Respond(p, Step("revise", p, t, r, e, "forbidden", [fields |-> fields]))
       ELSE IF SchemaRows(t, e) = {}
       THEN Respond(p, Step("revise", p, t, r, e, "notfound", [fields |-> fields]))
       ELSE \E i \in SchemaRows(t, e) :
            /\ req' = [req EXCEPT ![p] = [Idle EXCEPT !.pc = "revise_commit",
                           !.tenant = t, !.role = r, !.entity = e, !.fields = fields,
                           !.row = i, !.ver = schemas[i].version,
                           !.had = schemas[i].fields]]
            /\ last' = Step("revise", p, t, r, e, "pending",
                            [fields |-> fields, row |-> i, version |-> schemas[i].version])

\* The UPDATE that the flush of a loaded schema row emits: the version, and
\* the field list when it differs from the one loaded.
FlushSchema(p, v) ==
    [schemas EXCEPT ![req[p].row].fields =
                        IF req[p].fields # req[p].had THEN req[p].fields ELSE @,
                    ![req[p].row].version = v]

\* CommitSchema as a rollback that restores the target's version number
\* would write it.
CommitSchemaToTarget(p, op) ==
    LET v == IF op = "rollback" THEN req[p].tver ELSE req[p].ver + 1
    IN /\ schemas' = FlushSchema(p, v)
       /\ versions' = Append(versions, [tenant |-> req[p].tenant, entity |-> req[p].entity,
                                         version |-> v, fields |-> req[p].fields])
       /\ Respond(p, Step(op, p, req[p].tenant, req[p].role, req[p].entity, "ok",
                          [fields |-> schemas'[req[p].row].fields, version |-> v,
                           row |-> req[p].row, tver |-> req[p].tver]))
       /\ UNCHANGED <<perms, records, logs, routes>>

\* The flush of a loaded schema row with its new field list and version, and
\* the snapshot added with it, in one db.commit(); the response is the row
\* as db.refresh() reads it back.
CommitSchema(p, op) ==
    /\ schemas' = FlushSchema(p, req[p].ver + 1)
    /\ versions' = Append(versions, [tenant |-> req[p].tenant, entity |-> req[p].entity,
                                      version |-> req[p].ver + 1, fields |-> req[p].fields])
    /\ Respond(p, Step(op, p, req[p].tenant, req[p].role, req[p].entity, "ok",
                       [fields |-> schemas'[req[p].row].fields, version |-> req[p].ver + 1,
                        row |-> req[p].row, tver |-> req[p].tver]))
    /\ UNCHANGED <<perms, records, logs, routes>>

\* UpdateEntitySchemaCommit as a revise that migrates would be: it removes
\* the entity's records with the commit.
UpdateEntitySchemaCommitPurging(p) ==
    /\ req[p].pc = "revise_commit"
    /\ schemas' = FlushSchema(p, req[p].ver + 1)
    /\ versions' = Append(versions, [tenant |-> req[p].tenant, entity |-> req[p].entity,
                                      version |-> req[p].ver + 1, fields |-> req[p].fields])
    /\ records' = [j \in DOMAIN records |->
                      IF records[j].tenant = req[p].tenant /\ records[j].entity = req[p].entity
                      THEN [records[j] EXCEPT !.live = FALSE] ELSE records[j]]
    /\ Respond(p, Step("revise", p, req[p].tenant, req[p].role, req[p].entity, "ok",
                       [fields |-> schemas'[req[p].row].fields, version |-> req[p].ver + 1,
                        row |-> req[p].row]))
    /\ UNCHANGED <<perms, logs, routes>>

\* update_entity_schema: the assignments and db.commit()
UpdateEntitySchemaCommit(p) ==
    /\ req[p].pc = "revise_commit"
    /\ CommitSchema(p, "revise")

\* rollback_entity_schema up to the load of the target snapshot
RollbackEntitySchema(p, t, r, e, version) ==
    /\ req[p].pc = "idle"
    /\ Len(versions) + SnapshotWriters < MaxSnapshots
    /\ UNCHANGED <<tables, routes>>
    /\ IF ~IsAdmin(r)
       THEN Respond(p, Step("rollback", p, t, r, e, "forbidden", [tver |-> version]))
       ELSE IF SchemaRows(t, e) = {} \/ VersionRows(t, e, version) = {}
       THEN Respond(p, Step("rollback", p, t, r, e, "notfound", [tver |-> version]))
       ELSE \E i \in SchemaRows(t, e), k \in VersionRows(t, e, version) :
            /\ req' = [req EXCEPT ![p] = [Idle EXCEPT !.pc = "rollback_commit",
                           !.tenant = t, !.role = r, !.entity = e,
                           !.fields = versions[k].fields, !.tver = version,
                           !.row = i, !.ver = schemas[i].version,
                           !.had = schemas[i].fields]]
            /\ last' = Step("rollback", p, t, r, e, "pending",
                            [fields |-> versions[k].fields, row |-> i, tver |-> version,
                             version |-> schemas[i].version])

\* rollback_entity_schema: the assignments and db.commit()
RollbackEntitySchemaCommit(p) ==
    /\ req[p].pc = "rollback_commit"
    /\ CommitSchema(p, "rollback")

\* set_permissions up to the load of the role's row
SetPermissions(p, t, r, e, role, flags) ==
    /\ req[p].pc = "idle"
    /\ UNCHANGED <<tables, routes>>
    /\ IF ~IsAdmin(r)
       THEN Respond(p, Step("set_permissions", p, t, r, e, "forbidden",
                           [target |-> role, flags |-> flags]))
       ELSE \E i \in (IF PermRows(t, e, role) = {} THEN {0} ELSE PermRows(t, e, role)) :
            /\ req' = [req EXCEPT ![p] = [Idle EXCEPT !.pc = "perm_commit",
                           !.tenant = t, !.role = r, !.entity = e, !.target = role,
                           !.flags = flags, !.perm = i,
                           !.hadflags = IF i = 0 THEN AllTrue ELSE perms[i].can]]
            /\ last' = Step("set_permissions", p, t, r, e, "pending",
                            [target |-> role, flags |-> flags, row |-> i])

\* set_permissions: the insert of the row, or the UPDATE of the flags that
\* differ from the ones loaded, and db.commit()
SetPermissionsCommit(p) ==
    /\ req[p].pc = "perm_commit"
    /\ perms' = IF req[p].perm = 0
                THEN Append(perms, [tenant |-> req[p].tenant, entity |-> req[p].entity,
                                    role |-> req[p].target, can |-> req[p].flags])
                ELSE [perms EXCEPT ![req[p].perm].can =
                         [a \in Actions |-> IF req[p].flags[a] # req[p].hadflags[a]
                                            THEN req[p].flags[a] ELSE @[a]]]
    /\ Respond(p, Step("set_permissions", p, req[p].tenant, req[p].role, req[p].entity,
                       "ok", [target |-> req[p].target, flags |-> req[p].flags,
                              row |-> IF req[p].perm = 0 THEN Len(perms) + 1
                                      ELSE req[p].perm]))
    /\ UNCHANGED <<schemas, versions, records, logs, routes>>

\* ------------------------------------------------------------ record engine
\* The app has the routes of an entity name once a declare of it, by any
\* tenant, has run include_router; a request for a path with no route is
\* answered by the framework (404), before any handler runs.
\* Requests in flight that will still insert a record / a log entry.
RecordWriters == Cardinality({q \in Req : req[q].pc = "create_commit"})
LogWriters == Cardinality({q \in Req : req[q].pc = "update_commit"})

\* db.query(Record).filter(tenant, entity_name): the rows of the table
RecordRows(t, e) ==
    {j \in 1..Len(records) :
        records[j].live /\ records[j].tenant = t /\ records[j].entity = e}

\* FindRecord as a lookup by id and entity name alone would be.
FindRecordAnyTenant(t, e, record_id) ==
    {j \in 1..Len(records) : records[j].live /\ records[j].entity = e /\ j = record_id}

\* db.query(Record).filter(id, entity_name, tenant).first()
FindRecord(t, e, record_id) == {j \in RecordRows(t, e) : j = record_id}

\* The rows .first() can return in _check_permission: 0 stands for no row.
GateRows(t, e, r) == IF PermRows(t, e, r) = {} THEN {0} ELSE PermRows(t, e, r)

\* _check_permission, given the row that .first() returned
Permitted(g, action) == g # 0 /\ perms[g].can[action]

\* _check_uniques: the first unique field of the schema whose candidate value
\* another record holds, compared as text.
RECURSIVE CheckUniques(_, _, _, _, _, _)
CheckUniques(schema_fields, payload, t, e, record_id, i) ==
    IF i > Len(schema_fields) THEN Ok
    ELSE LET name == schema_fields[i].name
         IN IF /\ schema_fields[i].unique
               /\ name \in Keys(payload)
               /\ \E j \in RecordRows(t, e) :
                     /\ j # record_id
                     /\ AsTextEq(records[j].data, name, PyStr(Get(payload, name)))
            THEN Err("unique", name)
            ELSE CheckUniques(schema_fields, payload, t, e, record_id, i + 1)

\* create_record's own uniqueness loop, which skips an absent or null value
RECURSIVE InlineUniques(_, _, _, _, _)
InlineUniques(schema_fields, payload, t, e, i) ==
    IF i > Len(schema_fields) THEN Ok
    ELSE LET name == schema_fields[i].name
         IN IF /\ schema_fields[i].unique
               /\ name \in Keys(payload)
               /\ Get(payload, name).k # "null"
               /\ \E j \in RecordRows(t, e) :
                     AsTextEq(records[j].data, name, PyStr(Get(payload, name)))
            THEN Err("unique", name)
            ELSE InlineUniques(schema_fields, payload, t, e, i + 1)

\* CreateChecks as it would be with the uniqueness loop run before the
\* validation of the payload.
CreateChecksUniquesFirst(schema_fields, payload, t, e) ==
    LET u == InlineUniques(schema_fields, payload, t, e, 1)
        v == ValidateData(schema_fields, payload)
    IN IF u # Ok THEN u
       ELSE IF v # Ok THEN v
       ELSE CheckUniques(schema_fields, payload, t, e, 0, 1)

\* The checks of create_record after the schema is loaded, in order.
CreateChecks(schema_fields, payload, t, e) ==
    LET v == ValidateData(schema_fields, payload)
        u == InlineUniques(schema_fields, payload, t, e, 1)
    IN IF v # Ok THEN v
       ELSE IF u # Ok THEN u
       ELSE CheckUniques(schema_fields, payload, t, e, 0, 1)

\* UpdateChecks as it would be if the uniqueness scan did not exclude the
\* record that is updated.
UpdateChecksNoExclusion(schema_fields, payload, t, e, record_id) ==
    LET v == ValidateData(schema_fields, payload)
    IN IF v # Ok THEN v ELSE CheckUniques(schema_fields, payload, t, e, 0, 1)

\* The checks of update_record after the schema is loaded, in order.
UpdateChecks(schema_fields, payload, t, e, record_id) ==
    LET v == ValidateData(schema_fields, payload)
    IN IF v # Ok THEN v ELSE CheckUniques(schema_fields, payload, t, e, record_id, 1)

ErrKind(c) == IF c.err = "unique" THEN "duplicate" ELSE "invalid"

\* create_record up to the last uniqueness check
CreateRecord(p, t, r, e, payload) ==
    /\ req[p].pc = "idle"
    /\ Len(records) + RecordWriters < MaxRecords
    /\ UNCHANGED <<tables, routes>>
    /\ IF e \notin routes
       THEN Respond(p, Step("create", p, t, r, e, "noroute", [payload |-> payload]))
       ELSE \E g \in GateRows(t, e, r) :
          IF ~Permitted(g, "create")
          THEN Respond(p, Step("create", p, t, r, e, "forbidden", [payload |-> payload]))
          ELSE IF SchemaRows(t, e) = {}
          THEN Respond(p, Step("create", p, t, r, e, "notfound",
                              [payload |-> payload, err |-> Err("noentity", "")]))
          ELSE \E i \in SchemaRows(t, e) :
               LET c == CreateChecks(schemas[i].fields, payload, t, e)
               IN IF c # Ok
                  THEN Respond(p, Step("create", p, t, r, e, ErrKind(c),
                                      [payload |-> payload, err |-> c, row |-> i]))
                  ELSE /\ req' = [req EXCEPT ![p] = [Idle EXCEPT !.pc = "create_commit",
                                      !.tenant = t, !.role = r, !.entity = e,
                                      !.payload = payload, !.row = i]]
                       /\ last' = Step("create", p, t, r, e, "pending",
                                       [payload |-> payload, row |-> i])

\* create_record: db.add(record) and db.commit()
CreateRecordCommit(p) ==
    /\ req[p].pc = "create_commit"
    /\ records' = Append(records, [tenant |-> req[p].tenant, entity |-> req[p].entity,
                                    data |-> Jsonb(req[p].payload), live |-> TRUE])
    /\ Respond(p, Step("create", p, req[p].tenant, req[p].role, req[p].entity, "ok",
                       [payload |-> req[p].payload, rid |-> Len(records) + 1,
                        ids |-> {Len(records) + 1}, row |-> req[p].row]))
    /\ UNCHANGED <<schemas, versions, perms, logs, routes>>

\* list_records
ListRecords(p, t, r, e) ==
    /\ req[p].pc = "idle"
    /\ UNCHANGED <<tables, routes>>
    /\ IF e \notin routes
       THEN Respond(p, Step("list", p, t, r, e, "noroute", <<>>))
       ELSE \E g \in GateRows(t, e, r) :
          IF ~Permitted(g, "read")
          THEN Respond(p, Step("list", p, t, r, e, "forbidden", <<>>))
          ELSE Respond(p, Step("list", p, t, r, e, "ok", [ids |-> RecordRows(t, e)]))

\* GetRecord as it would be with the lookup made before the permission check.
GetRecordLookupFirst(p, t, r, e, record_id) ==
    /\ req[p].pc = "idle"
    /\ UNCHANGED <<tables, routes>>
    /\ IF e \notin routes
       THEN Respond(p, Step("get", p, t, r, e, "noroute", [rid |-> record_id]))
       ELSE \E g \in GateRows(t, e, r) :
          IF FindRecord(t, e, record_id) = {}
          THEN Respond(p, Step("get", p, t, r, e, "notfound", [rid |-> record_id]))
          ELSE IF ~Permitted(g, "read")
          THEN Respond(p, Step("get", p, t, r, e, "forbidden", [rid |-> record_id]))
          ELSE Respond(p, Step("get", p, t, r, e, "ok",
                              [rid |-> record_id, ids |-> FindRecord(t, e, record_id)]))

\* get_record
GetRecord(p, t, r, e, record_id) ==
    /\ req[p].pc = "idle"
    /\ UNCHANGED <<tables, routes>>
    /\ IF e \notin routes
       THEN Respond(p, Step("get", p, t, r, e, "noroute", [rid |-> record_id]))
       ELSE \E g \in GateRows(t, e, r) :
          IF ~Permitted(g, "read")
          THEN Respond(p, Step("get", p, t, r, e, "forbidden", [rid |-> record_id]))
          ELSE IF FindRecord(t, e, record_id) = {}
          THEN Respond(p, Step("get", p, t, r, e, "notfound", [rid |-> record_id]))
          ELSE Respond(p, Step("get", p, t, r, e, "ok",
                              [rid |-> record_id, ids |-> FindRecord(t, e, record_id)]))

\* update_record up to the uniqueness check and the copy of the old payload
UpdateRecord(p, t, r, e, record_id, payload) ==
    /\ req[p].pc = "idle"
    /\ Len(logs) + LogWriters < MaxLogs
    /\ UNCHANGED <<tables, routes>>
    /\ IF e \notin routes
       THEN Respond(p, Step("update", p, t, r, e, "noroute", [rid |-> record_id, payload |-> payload]))
       ELSE \E g \in GateRows(t, e, r) :
          IF ~Permitted(g, "update")
          THEN Respond(p, Step("update", p, t, r, e, "forbidden",
                              [rid |-> record_id, payload |-> payload]))
          ELSE IF FindRecord(t, e, record_id) = {}
          THEN Respond(p, Step("update", p, t, r, e, "notfound",
                              [rid |-> record_id, payload |-> payload,
                               err |-> Err("norecord", "")]))
          ELSE IF SchemaRows(t, e) = {}
          THEN Respond(p, Step("update", p, t, r, e, "notfound",
                              [rid |-> record_id, payload |-> payload,
                               err |-> Err("noentity", "")]))
          ELSE \E i \in SchemaRows(t, e) :
               LET c == UpdateChecks(schemas[i].fields, payload, t, e, record_id)
               IN IF c # Ok
                  THEN Respond(p, Step("update", p, t, r, e, ErrKind(c),
                                      [rid |-> record_id, payload |-> payload, err |-> c,
                                       row |-> i]))
                  ELSE /\ req' = [req EXCEPT ![p] = [Idle EXCEPT !.pc = "update_commit",
                                      !.tenant = t, !.role = r, !.entity = e,
                                      !.payload = payload, !.row = i, !.rec = record_id,
                                      !.before = records[record_id].data]]
                       /\ last' = Step("update", p, t, r, e, "pending",
                                       [rid |-> record_id, payload |-> payload, row |-> i])

\* update_record: the assignments, db.add(log) and db.commit().  The flush
\* emits an UPDATE of the payload when it differs from the one loaded; an
\* UPDATE of a row that a concurrent delete removed fails the transaction.
\* When the payload is the one loaded, the row is written only if updated_by
\* changes, so a removed row fails the transaction or goes unnoticed.
UpdateRecordCommit(p) ==
    LET same == Jsonb(req[p].payload) = req[p].before
        gone == ~records[req[p].rec].live
        fail == /\ UNCHANGED <<records, logs>>
                /\ Respond(p, Step("update", p, req[p].tenant, req[p].role,
                                   req[p].entity, "error",
                                   [rid |-> req[p].rec, payload |-> req[p].payload]))
        done == /\ records' = IF same THEN records
                              ELSE [records EXCEPT ![req[p].rec].data = Jsonb(req[p].payload)]
                /\ logs' = Append(logs, [record_id |-> req[p].rec, tenant |-> req[p].tenant,
                                         entity |-> req[p].entity, before |-> req[p].before,
                                         after |-> Jsonb(req[p].payload)])
                /\ Respond(p, Step("update", p, req[p].tenant, req[p].role,
                                   req[p].entity, "ok",
                                   [rid |-> req[p].rec, payload |-> req[p].payload,
                                    ids |-> {req[p].rec}, row |-> req[p].row]))
    IN /\ req[p].pc = "update_commit"
       /\ UNCHANGED <<schemas, versions, perms, routes>>
       /\ \/ gone /\ fail
          \/ (~gone \/ same) /\ done

\* delete_record up to the load of the record
DeleteRecord(p, t, r, e, record_id) ==
    /\ req[p].pc = "idle"
    /\ UNCHANGED <<tables, routes>>
    /\ IF e \notin routes
       THEN Respond(p, Step("delete", p, t, r, e, "noroute", [rid |-> record_id]))
       ELSE \E g \in GateRows(t, e, r) :
          IF ~Permitted(g, "delete")
          THEN Respond(p, Step("delete", p, t, r, e, "forbidden", [rid |-> record_id]))
          ELSE IF FindRecord(t, e, record_id) = {}
          THEN Respond(p, Step("delete", p, t, r, e, "notfound", [rid |-> record_id]))
          ELSE /\ req' = [req EXCEPT ![p] = [Idle EXCEPT !.pc = "delete_commit",
                              !.tenant = t, !.role = r, !.entity = e, !.rec = record_id]]
               /\ last' = Step("delete", p, t, r, e, "pending", [rid |-> record_id])

\* delete_record: db.delete(record) and db.commit()
DeleteRecordCommit(p) ==
    /\ req[p].pc = "delete_commit"
    /\ records' = [records EXCEPT ![req[p].rec].live = FALSE]
    /\ Respond(p, Step("delete", p, req[p].tenant, req[p].role, req[p].entity, "ok",
                       [rid |-> req[p].rec]))
    /\ UNCHANGED <<schemas, versions, perms, logs, routes>>

\* ------------------------------------------------------------------ inputs
UniqueString == <<Field("f", "string", FALSE, TRUE, NoBound, NoBound)>>
UniqueBoolean == <<Field("f", "boolean", FALSE, TRUE, NoBound, NoBound)>>
UniqueInteger == <<Field("f", "integer", FALSE, TRUE, NoBound, NoBound)>>
UniqueFloat == <<Field("f", "float", FALSE, TRUE, NoBound, NoBound)>>
RequiredInteger == <<Field("f", "integer", TRUE, FALSE, NoBound, NoBound)>>

Caller(t, r) == [tenant |-> t, role |-> r]
RecordIds == 1..MaxRecords
VersionIds == 1..MaxSnapshots

\* Two requests may overlap; a request that overlaps no other is request 1.
Concurrent(p) == p = 1 \/ req[1].pc # "idle"
\* Requests one at a time.
OneAtATime(p) == p = 1 /\ \A q \in Req : req[q].pc = "idle"
\* Whether a new request may start in slot p.
Free(p, mode) == IF mode = "one" THEN OneAtATime(p) ELSE Concurrent(p)

\* The first step of request p, with the caller drawn from CS and the
\* arguments from the sets given.
Declare(p, mode, CS, FL) ==
    /\ Free(p, mode)
    /\ \E c \in CS, e \in Entities, fields \in FL :
          CreateEntitySchema(p, c.tenant, c.role, e, fields)
Revise(p, mode, CS, FL) ==
    /\ Free(p, mode)
    /\ \E c \in CS, e \in Entities, fields \in FL :
          UpdateEntitySchema(p, c.tenant, c.role, e, fields)
Rollback(p, mode, CS) ==
    /\ Free(p, mode)
    /\ \E c \in CS, e \in Entities, v \in VersionIds :
          RollbackEntitySchema(p, c.tenant, c.role, e, v)
SetPerm(p, mode, CS, RS, PS) ==
    /\ Free(p, mode)
    /\ \E c \in CS, e \in Entities, role \in RS, flags \in PS :
          SetPermissions(p, c.tenant, c.role, e, role, flags)
Create(p, mode, CS, PL) ==
    /\ Free(p, mode)
    /\ \E c \in CS, e \in Entities, payload \in PL :
          CreateRecord(p, c.tenant, c.role, e, payload)
List(p, mode, CS) ==
    /\ Free(p, mode)
    /\ \E c \in CS, e \in Entities : ListRecords(p, c.tenant, c.role, e)
GetOne(p, mode, CS) ==
    /\ Free(p, mode)
    /\ \E c \in CS, e \in Entities, id \in RecordIds :
          GetRecord(p, c.tenant, c.role, e, id)
Update(p, mode, CS, PL) ==
    /\ Free(p, mode)
    /\ \E c \in CS, e \in Entities, id \in RecordIds, payload \in PL :
          UpdateRecord(p, c.tenant, c.role, e, id, payload)
Delete(p, mode, CS) ==
    /\ Free(p, mode)
    /\ \E c \in CS, e \in Entities, id \in RecordIds :
          DeleteRecord(p, c.tenant, c.role, e, id)

\* ------------------------------------------------- the schema store alone
StoreCallers == {Caller("A", "admin"), Caller("A", "user"), Caller("B", "admin")}
StoreFieldLists == {UniqueString, RequiredInteger}

NextStore ==
    \E p \in Req :
        \/ Declare(p, "any", StoreCallers, StoreFieldLists)
        \/ CreateEntitySchemaAdd(p)
        \/ CreateEntitySchemaSeed(p)
        \/ Revise(p, "any", StoreCallers, StoreFieldLists)
        \/ UpdateEntitySchemaCommit(p)
        \/ Rollback(p, "any", StoreCallers)
        \/ RollbackEntitySchemaCommit(p)

SpecStore == Init /\ [][NextStore]_vars

NextStoreSeq ==
    \E p \in Req :
        \/ Declare(p, "one", StoreCallers, StoreFieldLists)
        \/ CreateEntitySchemaAdd(p)
        \/ CreateEntitySchemaSeed(p)
        \/ Revise(p, "one", StoreCallers, StoreFieldLists)
        \/ UpdateEntitySchemaCommit(p)
        \/ Rollback(p, "one", StoreCallers)
        \/ RollbackEntitySchemaCommit(p)

SpecStoreSeq == Init /\ [][NextStoreSeq]_vars

\* ------------------------------- records of two tenants, one at a time
TwoTenants == {Caller("A", "admin"), Caller("B", "admin")}
RecordFieldLists == {UniqueString}
RecordPayloads == {<<<<"f", S("a")>>>>, <<<<"f", S("b")>>>>}

IsolationCreates == {<<<<"f", S("a")>>>>}
IsolationUpdates == {<<<<"f", S("b")>>>>}

NextIsolation ==
    \E p \in Req :
        \/ Declare(p, "one", TwoTenants, RecordFieldLists)
        \/ CreateEntitySchemaAdd(p)
        \/ CreateEntitySchemaSeed(p)
        \/ Create(p, "one", TwoTenants, IsolationCreates)
        \/ CreateRecordCommit(p)
        \/ List(p, "one", TwoTenants)
        \/ GetOne(p, "one", TwoTenants)
        \/ Update(p, "one", TwoTenants, IsolationUpdates)
        \/ UpdateRecordCommit(p)
        \/ Delete(p, "one", TwoTenants)
        \/ DeleteRecordCommit(p)

SpecIsolation == Init /\ [][NextIsolation]_vars

\* ------------------------------ records of one tenant, requests overlap
OneTenant == {Caller("A", "admin")}

NextRace ==
    \E p \in Req :
        \/ Declare(p, "any", OneTenant, RecordFieldLists)
        \/ CreateEntitySchemaAdd(p)
        \/ CreateEntitySchemaSeed(p)
        \/ Create(p, "any", OneTenant, RecordPayloads)
        \/ CreateRecordCommit(p)
        \/ List(p, "any", OneTenant)
        \/ GetOne(p, "any", OneTenant)
        \/ Update(p, "any", OneTenant, RecordPayloads)
        \/ UpdateRecordCommit(p)
        \/ Delete(p, "any", OneTenant)
        \/ DeleteRecordCommit(p)

SpecRace == Init /\ [][NextRace]_vars

\* ------------------- unique fields of every type, requests one at a time
UniqueFieldLists == {UniqueString, UniqueInteger, UniqueFloat, UniqueBoolean}
TypedPayloads == {<<<<"f", S("a")>>>>, <<<<"f", I(1)>>>>, <<<<"f", F(15)>>>>,
                  <<<<"f", B(TRUE)>>>>}

NextUnique ==
    \E p \in Req :
        \/ Declare(p, "one", OneTenant, UniqueFieldLists)
        \/ CreateEntitySchemaAdd(p)
        \/ CreateEntitySchemaSeed(p)
        \/ Create(p, "one", OneTenant, TypedPayloads)
        \/ CreateRecordCommit(p)
        \/ Update(p, "one", OneTenant, TypedPayloads)
        \/ UpdateRecordCommit(p)
        \/ Delete(p, "one", OneTenant)
        \/ DeleteRecordCommit(p)

SpecUnique == Init /\ [][NextUnique]_vars

\* ----------- values of a unique field that come free, one at a time
FreedFieldLists == {UniqueString, UniqueFloat}
FreedPayloads == {<<<<"f", S("a")>>>>, <<<<"f", I(1)>>>>, <<<<"f", F(15)>>>>}

NextFreed ==
    \E p \in Req :
        \/ Declare(p, "one", OneTenant, FreedFieldLists)
        \/ CreateEntitySchemaAdd(p)
        \/ CreateEntitySchemaSeed(p)
        \/ Create(p, "one", OneTenant, FreedPayloads)
        \/ CreateRecordCommit(p)
        \/ Update(p, "one", OneTenant, FreedPayloads)
        \/ UpdateRecordCommit(p)
        \/ Delete(p, "one", OneTenant)
        \/ DeleteRecordCommit(p)

SpecFreed == Init /\ [][NextFreed]_vars

\* ------------------------------ the permission gate, requests one at a time
GateCallers == {Caller("A", "admin"), Caller("A", "user"), Caller("A", "viewer")}
GateRoles == {"user", "viewer"}
GateFlags == {AllTrue, AllFalse}

NextGate ==
    \E p \in Req :
        \/ Declare(p, "one", GateCallers, RecordFieldLists)
        \/ CreateEntitySchemaAdd(p)
        \/ CreateEntitySchemaSeed(p)
        \/ SetPerm(p, "one", GateCallers, GateRoles, GateFlags)
        \/ SetPermissionsCommit(p)
        \/ Create(p, "one", GateCallers, IsolationCreates)
        \/ CreateRecordCommit(p)
        \/ List(p, "one", GateCallers)
        \/ GetOne(p, "one", GateCallers)
        \/ Update(p, "one", GateCallers, IsolationUpdates)
        \/ UpdateRecordCommit(p)
        \/ Delete(p, "one", GateCallers)
        \/ DeleteRecordCommit(p)

SpecGate == Init /\ [][NextGate]_vars

\* ------------------------- records under a schema that is revised meanwhile
MigratePayloads == {<<<<"f", S("a")>>>>, <<<<"f", I(1)>>>>}

NextMigrate ==
    \E p \in Req :
        \/ Declare(p, "any", OneTenant, StoreFieldLists)
        \/ CreateEntitySchemaAdd(p)
        \/ CreateEntitySchemaSeed(p)
        \/ Revise(p, "any", OneTenant, StoreFieldLists)
        \/ UpdateEntitySchemaCommit(p)
        \/ Rollback(p, "any", OneTenant)
        \/ RollbackEntitySchemaCommit(p)
        \/ Create(p, "any", OneTenant, MigratePayloads)
        \/ CreateRecordCommit(p)
        \/ Update(p, "any", OneTenant, MigratePayloads)
        \/ UpdateRecordCommit(p)

SpecMigrate == Init /\ [][NextMigrate]_vars

\* --------------------- records and revisions of a schema, one at a time
NextMigrateSeq ==
    \E p \in Req :
        \/ Declare(p, "one", OneTenant, StoreFieldLists)
        \/ CreateEntitySchemaAdd(p)
        \/ CreateEntitySchemaSeed(p)
        \/ Revise(p, "one", OneTenant, StoreFieldLists)
        \/ UpdateEntitySchemaCommit(p)
        \/ Rollback(p, "one", OneTenant)
        \/ RollbackEntitySchemaCommit(p)
        \/ Create(p, "one", OneTenant, MigratePayloads)
        \/ CreateRecordCommit(p)
        \/ List(p, "one", OneTenant)
        \/ GetOne(p, "one", OneTenant)
        \/ Update(p, "one", OneTenant, MigratePayloads)
        \/ UpdateRecordCommit(p)

SpecMigrateSeq == Init /\ [][NextMigrateSeq]_vars

\* ------------- another tenant's record ids, requests one at a time
CrossCallers == {Caller("A", "admin"), Caller("B", "admin"), Caller("B", "user")}

NextCross ==
    \E p \in Req :
        \/ Declare(p, "one", CrossCallers, RecordFieldLists)
        \/ CreateEntitySchemaAdd(p)
        \/ CreateEntitySchemaSeed(p)
        \/ Create(p, "one", CrossCallers, IsolationCreates)
        \/ CreateRecordCommit(p)
        \/ GetOne(p, "one", CrossCallers)
        \/ Update(p, "one", CrossCallers, IsolationUpdates)
        \/ UpdateRecordCommit(p)
        \/ Delete(p, "one", CrossCallers)
        \/ DeleteRecordCommit(p)

SpecCross == Init /\ [][NextCross]_vars

\* ------------------ the histories of two tenants and two entity names
HistoryEntities == {"item", "note"}

DeclareOn(p, mode, CS, ES, FL) ==
    /\ Free(p, mode)
    /\ \E c \in CS, e \in ES, fields \in FL :
          CreateEntitySchema(p, c.tenant, c.role, e, fields)
ReviseOn(p, mode, CS, ES, FL) ==
    /\ Free(p, mode)
    /\ \E c \in CS, e \in ES, fields \in FL :
          UpdateEntitySchema(p, c.tenant, c.role, e, fields)
RollbackOn(p, mode, CS, ES) ==
    /\ Free(p, mode)
    /\ \E c \in CS, e \in ES, v \in VersionIds :
          RollbackEntitySchema(p, c.tenant, c.role, e, v)

NextHistory ==
    \E p \in Req :
        \/ DeclareOn(p, "any", TwoTenants, HistoryEntities, RecordFieldLists)
        \/ CreateEntitySchemaAdd(p)
        \/ CreateEntitySchemaSeed(p)
        \/ ReviseOn(p, "any", TwoTenants, HistoryEntities, RecordFieldLists)
        \/ UpdateEntitySchemaCommit(p)
        \/ RollbackOn(p, "any", TwoTenants, HistoryEntities)
        \/ RollbackEntitySchemaCommit(p)

SpecHistory == Init /\ [][NextHistory]_vars

\* ----------- the admin operations, called by every role, one at a time
AdminCallers == {Caller("A", "admin"), Caller("A", "user")}

NextAdmin ==
    \E p \in Req :
        \/ Declare(p, "one", AdminCallers, StoreFieldLists)
        \/ CreateEntitySchemaAdd(p)
        \/ CreateEntitySchemaSeed(p)
        \/ Revise(p, "one", AdminCallers, StoreFieldLists)
        \/ UpdateEntitySchemaCommit(p)
        \/ Rollback(p, "one", AdminCallers)
        \/ RollbackEntitySchemaCommit(p)
        \/ SetPerm(p, "one", AdminCallers, GateRoles, GateFlags)
        \/ SetPermissionsCommit(p)

SpecAdmin == Init /\ [][NextAdmin]_vars

\* ------------------------------------ the validator on its own inputs
FieldNames == <<"f", "g", "h", "k">>
ValidateFields ==
    {Field(FieldNames[n], ty, rq, FALSE, NoBound, NoBound) :
        n \in 1..MaxFields, ty \in {"string", "integer"}, rq \in BOOLEAN}
ValidateFieldLists == UNION {[1..n -> ValidateFields] : n \in 1..MaxFields}

\* A payload gives each name of the field lists, and one name more, no key,
\* a null or a string.
Absent == [k |-> "absent", n |-> 0, s |-> ""]
PayloadOf(assign) ==
    SelectSeq([n \in 1..(MaxFields + 1) |-> <<FieldNames[n], assign[n]>>],
              LAMBDA item : item[2] # Absent)
ValidatePayloads ==
    {PayloadOf(assign) : assign \in [1..(MaxFields + 1) -> {Absent, Null, S("a")}]}

InitValidate ==
    /\ schemas = <<>>
    /\ versions = <<>>
    /\ perms = <<>>
    /\ records = <<>>
    /\ logs = <<>>
    /\ routes = {}
    /\ req = [p \in Req |-> Idle]
    /\ \E fields \in ValidateFieldLists, payload \in ValidatePayloads :
          last = Step("validate", 0, "", "", "", "input",
                      [fields |-> fields, payload |-> payload])

\* _validate_data(schema_fields, data)
Validate ==
    /\ last.op = "validate"
    /\ last.kind = "input"
    /\ last' = [last EXCEPT !.kind = "done",
                             !.err = ValidateData(last.fields, last.payload)]
    /\ UNCHANGED <<tables, routes, req>>

SpecValidate == InitValidate /\ [][Validate]_vars

\* ------------------------- the validator on one field and one value
TypedFields ==
    {Field("f", ty, FALSE, FALSE, lo, hi) :
        ty \in {"string", "integer", "float", "boolean", "relation"},
        lo \in {NoBound} \cup 0..MaxBound, hi \in {NoBound} \cup 0..MaxBound}

\* Integers from below the least bound to above the greatest, the floats
\* between them by halves, and a value of every other kind.
TypedValues ==
    {I(x - 1) : x \in 0..(MaxBound + 2)}
        \cup {F(5 * x - 10) : x \in 0..(2 * MaxBound + 4)}
        \cup {S("a"), B(TRUE), B(FALSE), Null}

InitTyped ==
    /\ schemas = <<>>
    /\ versions = <<>>
    /\ perms = <<>>
    /\ records = <<>>
    /\ logs = <<>>
    /\ routes = {}
    /\ req = [p \in Req |-> Idle]
    /\ \E f \in TypedFields, v \in TypedValues :
          last = Step("validate", 0, "", "", "", "input",
                      [fields |-> <<f>>, payload |-> <<<<"f", v>>>>])

SpecTyped == InitTyped /\ [][Validate]_vars

\* ------------ a unique field whose type is revised, requests one at a time
CoerceFieldLists == {UniqueString, UniqueInteger, UniqueBoolean}
CoercePayloads ==
    {<<<<"f", S("1")>>>>, <<<<"f", I(1)>>>>, <<<<"f", S("true")>>>>, <<<<"f", B(TRUE)>>>>}

NextCoerce ==
    \E p \in Req :
        \/ Declare(p, "one", OneTenant, CoerceFieldLists)
        \/ CreateEntitySchemaAdd(p)
        \/ CreateEntitySchemaSeed(p)
        \/ Revise(p, "one", OneTenant, CoerceFieldLists)
        \/ UpdateEntitySchemaCommit(p)
        \/ Create(p, "one", OneTenant, CoercePayloads)
        \/ CreateRecordCommit(p)

SpecCoerce == Init /\ [][NextCoerce]_vars

\* ------------- the order of the checks of create and update, one at a time
\* Tenant B declares the entity and holds the records; in tenant A the admin
\* grants the viewer the entity that A has not declared; B's viewer has no
\* grant.
OrderDeclarers == {Caller("B", "admin")}
OrderGranters == {Caller("A", "admin")}
OrderCallers == {Caller("A", "viewer"), Caller("B", "admin"), Caller("B", "viewer")}
OrderRoles == {"viewer"}
OrderFlags == {AllTrue}
OrderPayloads ==
    {<<<<"f", S("a")>>>>, <<<<"f", S("b")>>>>, <<<<"f", S("a")>>, <<"g", S("a")>>>>}

NextOrder ==
    \E p \in Req :
        \/ Declare(p, "one", OrderDeclarers, RecordFieldLists)
        \/ CreateEntitySchemaAdd(p)
        \/ CreateEntitySchemaSeed(p)
        \/ SetPerm(p, "one", OrderGranters, OrderRoles, OrderFlags)
        \/ SetPermissionsCommit(p)
        \/ Create(p, "one", OrderCallers, OrderPayloads)
        \/ CreateRecordCommit(p)
        \/ Update(p, "one", OrderCallers, OrderPayloads)
        \/ UpdateRecordCommit(p)

SpecOrder == Init /\ [][NextOrder]_vars

\* ------------------------------------------------------------------ claims
\* The first step of a request: it leaves an idle slot.
Begins(op) == last'.op = op /\ last'.p # 0 /\ req[last'.p].pc = "idle" /\ last' # last
\* The commit of a request that is answered ok.
Succeeds(op) == last'.op = op /\ last'.kind = "ok" /\ req[last'.p].pc # "idle"

\* The snapshots of (t, e) in the history.
Snapshots(t, e) ==
    {i \in 1..Len(versions) : versions[i].tenant = t /\ versions[i].entity = e}

\* The records that belong to a tenant other than t.
Foreign(t) == {j \in 1..Len(records) : records[j].tenant # t}

\* Records i and j both hold a value of field name, the same one.
SameValue(i, j, name) ==
    /\ name \in DOMAIN records[i].data
    /\ name \in DOMAIN records[j].data
    /\ records[i].data[name] = records[j].data[name]

\* C1: no two records of a (tenant, entity_name) hold the same value of a
\* field that the schema marked unique when both were written (the schemas
\* of SpecRace mark the field unique from the declare on).
C1_NoDuplicateUnique ==
    \A t \in Tenants, e \in Entities :
        \A i \in RecordRows(t, e), j \in RecordRows(t, e), s \in SchemaRows(t, e) :
            \A k \in 1..Len(schemas[s].fields) :
                (i # j /\ schemas[s].fields[k].unique)
                    => ~SameValue(i, j, schemas[s].fields[k].name)

\* The payload names a field that fields marks unique with the value that a
\* record of (t, e) already holds.
HeldUnique(fields, payload, t, e) ==
    \E k \in 1..Len(fields) :
        /\ fields[k].unique
        /\ fields[k].name \in Keys(payload)
        /\ \E j \in RecordRows(t, e) :
              /\ fields[k].name \in DOMAIN records[j].data
              /\ records[j].data[fields[k].name] = Get(payload, fields[k].name)

\* C2: with requests one at a time, a create that passes the gate and the
\* validation and carries, for a field the current schema marks unique, the
\* value an existing record holds, fails with the uniqueness error and
\* persists nothing.
C2_DuplicateValueRejected ==
    [][(/\ Begins("create")
        /\ \A g \in GateRows(last'.tenant, last'.entity, last'.role) :
              Permitted(g, "create")
        /\ \E i \in SchemaRows(last'.tenant, last'.entity) :
              /\ ValidateData(schemas[i].fields, last'.payload) = Ok
              /\ HeldUnique(schemas[i].fields, last'.payload, last'.tenant, last'.entity))
       => (last'.kind = "duplicate" /\ req'[last'.p].pc = "idle"
              /\ UNCHANGED <<tables, routes>>)]_vars

\* C3: no step of a request of tenant t changes or removes a record of
\* another tenant, returns one, or logs a change to one.
C3_TenantIsolation ==
    [][last'.p # 0 =>
        LET t == last'.tenant
        IN /\ \A j \in Foreign(t) : records'[j] = records[j]
           /\ last'.ids \cap Foreign(t) = {}
           /\ \A k \in (Len(logs) + 1)..Len(logs') : logs'[k].record_id \notin Foreign(t)]_vars

\* A tenant that has the entity and a record of its own is answered NotFound
\* for the id of another tenant's live record of the same entity name.
C3_Witness ==
    /\ last.op \in {"get", "update", "delete"}
    /\ last.kind = "notfound"
    /\ SchemaRows(last.tenant, last.entity) # {}
    /\ last.rid \in 1..Len(records)
    /\ records[last.rid].live
    /\ records[last.rid].tenant # last.tenant
    /\ records[last.rid].entity = last.entity
    /\ RecordRows(last.tenant, last.entity) # {}

RecordOps == {"create", "list", "get", "update", "delete"}
ActionOf(op) == IF op \in {"list", "get"} THEN "read" ELSE op

\* A record operation on an entity that has its routes is answered
\* Forbidden, changing nothing, unless a permission row of the caller's
\* (tenant, entity, role) grants the action.
C4_DeniedWithoutGrant ==
    ((\E op \in RecordOps : Begins(op)) /\ last'.entity \in routes) =>
        \/ \E g \in PermRows(last'.tenant, last'.entity, last'.role) :
              perms[g].can[ActionOf(last'.op)]
        \/ last'.kind = "forbidden" /\ UNCHANGED <<tables, routes>>

\* Once set_permissions has answered with a grant of an action, the gate
\* passes that action for the role, whichever row it reads.
C4_GrantPasses ==
    (last.op = "set_permissions" /\ last.kind = "ok") =>
        \A a \in Actions :
            last.flags[a] =>
                \A g \in GateRows(last.tenant, last.entity, last.target) : Permitted(g, a)

\* C4: a record operation of role r of tenant t on entity e is answered
\* Forbidden, changing nothing, unless a permission row of (t, e, r) has the
\* flag of the action set (so a role with no row is denied); and after
\* set_permissions has stored a grant of the action, the call passes the gate.
C4_PermissionGate == [](C4_GrantPasses) /\ [][C4_DeniedWithoutGrant]_vars

\* C5: a successful rollback(t, e, k) of a schema at version v leaves it at
\* version v+1 with snapshot k's field list and appends exactly one snapshot
\* (t, e, v+1) with that field list; the version is never decremented.
C5_RollbackIsForwardRevision ==
    [][/\ Succeeds("rollback") =>
            LET i == last'.row
                t == last'.tenant
                e == last'.entity
            IN /\ schemas'[i].version = schemas[i].version + 1
               /\ \E k \in VersionRows(t, e, last'.tver) :
                     schemas'[i].fields = versions[k].fields
               /\ Len(versions') = Len(versions) + 1
               /\ versions'[Len(versions')] =
                     [tenant |-> t, entity |-> e, version |-> schemas[i].version + 1,
                      fields |-> schemas'[i].fields]
       /\ \A i \in 1..Len(schemas) : schemas'[i].version >= schemas[i].version]_vars

\* Between requests the history of (t, e) has exactly one snapshot for each
\* version 1..current and none beyond.
C6_HistoryComplete ==
    req[1].pc = "idle" =>
        \A i \in 1..Len(schemas) :
            LET t == schemas[i].tenant
                e == schemas[i].entity
            IN /\ \A v \in 1..schemas[i].version : Cardinality(VersionRows(t, e, v)) = 1
               /\ \A k \in Snapshots(t, e) : versions[k].version \in 1..schemas[i].version

\* A schema starts at version 1; a successful revise or rollback adds exactly
\* 1 and no other step changes a version; snapshots are only added.
C6_VersionStep ==
    /\ \A i \in 1..Len(schemas) :
          schemas'[i].version =
              IF (Succeeds("revise") \/ Succeeds("rollback")) /\ last'.row = i
              THEN schemas[i].version + 1 ELSE schemas[i].version
    /\ \A i \in (Len(schemas) + 1)..Len(schemas') : schemas'[i].version = 1
    /\ Len(versions') >= Len(versions)
    /\ \A k \in 1..Len(versions) : versions'[k] = versions[k]

\* C6: with requests one at a time, the current version starts at 1, grows
\* by exactly 1 on each successful revise or rollback and never decreases;
\* the history holds exactly one snapshot per version 1..current; a snapshot
\* once written is never modified or removed.
C6_MonotonicVersions == [](C6_HistoryComplete) /\ [][C6_VersionStep]_vars

\* A rollback has brought a schema to version 3, after a revise to version 2.
C6_Witness ==
    /\ req[1].pc = "idle"
    /\ last.op = "rollback" /\ last.kind = "ok"
    /\ \E i \in 1..Len(schemas) : schemas[i].version = 3
    /\ \E k \in 1..Len(versions) : versions[k].version = 2

\* C7: once (t, e) has a current schema, a declare of (t, e) by an admin
\* fails with the duplicate-entity error and changes no table.
C7_SecondDeclareConflicts ==
    [][(Begins("declare") /\ IsAdmin(last'.role)
            /\ SchemaRows(last'.tenant, last'.entity) # {})
        => (last'.kind = "conflict" /\ req'[last'.p].pc = "idle"
               /\ UNCHANGED <<tables, routes>>)]_vars

\* A declare with another field list has been answered with the conflict.
C7_Witness ==
    /\ last.op = "declare" /\ last.kind = "conflict"
    /\ \E i \in SchemaRows(last.tenant, last.entity) : schemas[i].fields # last.fields

\* C8: at most one current schema row per (tenant, entity_name).
C8_OneCurrentSchema ==
    \A t \in Tenants, e \in Entities : Cardinality(SchemaRows(t, e)) <= 1

\* C9: a successful revise or rollback never commits a version number that
\* the history of (t, e) already holds, and advances the current version by
\* one, so that two of them advance it by two; the number it commits is the
\* highest in the history, with the current field list.
C9_NoVersionCommittedTwice ==
    [][(Succeeds("revise") \/ Succeeds("rollback")) =>
            LET i == last'.row
                t == last'.tenant
                e == last'.entity
            IN /\ VersionRows(t, e, last'.version) = {}
               /\ schemas'[i].version = schemas[i].version + 1
               /\ \A k \in Snapshots(t, e) : versions[k].version < last'.version
               /\ versions'[Len(versions')].fields = schemas'[i].fields]_vars

\* C10: a successful update appends exactly one log entry, with the payload
\* stored just before the update as its before-payload and the new payload
\* as its after-payload; no other step appends a log entry.
C10_UpdateLogsBeforeAndAfter ==
    [][IF Succeeds("update")
       THEN /\ logs' = Append(logs, [record_id |-> last'.rid, tenant |-> last'.tenant,
                                     entity |-> last'.entity,
                                     before |-> records[last'.rid].data,
                                     after |-> Jsonb(last'.payload)])
            /\ records'[last'.rid].data = Jsonb(last'.payload)
       ELSE logs' = logs]_vars

\* C11: the payload that a successful create or update commits satisfies
\* the field list of the current schema of its (tenant, entity_name) at the
\* commit, also when a revise or rollback committed after the request
\* loaded the schema.
C11_CommittedPayloadConforms ==
    [][(Succeeds("create") \/ Succeeds("update")) =>
          /\ SchemaRows(last'.tenant, last'.entity) # {}
          /\ \A i \in SchemaRows(last'.tenant, last'.entity) :
                ValidateData(schemas'[i].fields, last'.payload) = Ok]_vars

\* A get, update or delete begins with the entity name and id of a live
\* record of a tenant other than the caller's.
CrossTenantCall ==
    /\ \E op \in {"get", "update", "delete"} : Begins(op)
    /\ last'.rid \in 1..Len(records)
    /\ records[last'.rid].live
    /\ records[last'.rid].tenant # last'.tenant
    /\ records[last'.rid].entity = last'.entity

C13_StandardRolesAllowed ==
    (last.op = "declare" /\ last.kind = "ok") =>
        \A i \in 1..Len(StandardRoles), a \in Actions :
            \A g \in GateRows(last.tenant, last.entity, StandardRoles[i]) : Permitted(g, a)

\* A record operation of a role that has no permission row for the entity
\* is answered Forbidden.
C13_NoRowDenied ==
    ((\E op \in RecordOps : Begins(op)) /\ last'.entity \in routes
        /\ PermRows(last'.tenant, last'.entity, last'.role) = {})
    => last'.kind = "forbidden"

\* C13: right after a successful declare(t, e, fields), whatever came
\* before, roles admin and user are each allowed create, read, update and
\* delete on e in t, and a role with no permission row for (t, e) is denied
\* all four until set_permissions creates its row.
C13_DeclareSeedsDefaults == [](C13_StandardRolesAllowed) /\ [][C13_NoRowDenied]_vars

\* C14: in every committed state each current schema (t, e) at version v has
\* a snapshot (t, e, v) in the history with the current field list, so that
\* no request can see a current schema whose version has no snapshot.
C14_CurrentHasSnapshot ==
    \A i \in 1..Len(schemas) :
        \E k \in Snapshots(schemas[i].tenant, schemas[i].entity) :
            /\ versions[k].version = schemas[i].version
            /\ versions[k].fields = schemas[i].fields

\* The live records of (t, e).
Stored(t, e) ==
    {j \in 1..Len(records) :
        records[j].live /\ records[j].tenant = t /\ records[j].entity = e}

\* C15: a successful revise or rollback changes no record and no log entry;
\* get and list, once past the gate, return the stored records of the
\* (tenant, entity_name) whether or not they conform to the current field
\* list; a payload is validated against it when an update offers one.
C15_ReviseLeavesRecords ==
    [][/\ (Succeeds("revise") \/ Succeeds("rollback")) => UNCHANGED <<records, logs>>
       /\ (Begins("get") /\ last'.kind \notin {"noroute", "forbidden"}) =>
              IF last'.rid \in Stored(last'.tenant, last'.entity)
              THEN last'.kind = "ok" /\ last'.ids = {last'.rid}
              ELSE last'.kind = "notfound"
       /\ (Begins("list") /\ last'.kind \notin {"noroute", "forbidden"}) =>
              last'.kind = "ok" /\ last'.ids = Stored(last'.tenant, last'.entity)
       /\ (Begins("update") /\ last'.kind = "pending") =>
              ValidateData(schemas[last'.row].fields, last'.payload) = Ok]_vars

\* A get or list returns a record whose payload the current field list, at
\* version 2 or later, rejects.
C15_Witness ==
    /\ last.op \in {"get", "list"}
    /\ last.kind = "ok"
    /\ \E j \in last.ids, i \in SchemaRows(last.tenant, last.entity), pl \in MigratePayloads :
          /\ schemas[i].version >= 2
          /\ Jsonb(pl) = records[j].data
          /\ ValidateData(schemas[i].fields, pl) # Ok

\* A live record of (t, e) other than record except holds, on a field that
\* fields marks unique, the value the payload offers for it.
HeldByOther(fields, payload, t, e, except) ==
    \E k \in 1..Len(fields) :
        /\ fields[k].unique
        /\ fields[k].name \in Keys(payload)
        /\ \E j \in Stored(t, e) \ {except} :
              /\ fields[k].name \in DOMAIN records[j].data
              /\ records[j].data[fields[k].name] = Get(payload, fields[k].name)

\* The request that begins is past the gate and its payload satisfies the
\* current schema, and no record other than except holds its unique values.
FreeValueOffered(except) ==
    /\ last'.entity \in routes
    /\ \A g \in GateRows(last'.tenant, last'.entity, last'.role) :
          Permitted(g, ActionOf(last'.op))
    /\ SchemaRows(last'.tenant, last'.entity) # {}
    /\ \A i \in SchemaRows(last'.tenant, last'.entity) :
          /\ ValidateData(schemas[i].fields, last'.payload) = Ok
          /\ ~HeldByOther(schemas[i].fields, last'.payload, last'.tenant, last'.entity, except)

\* C16: with requests one at a time, a unique value is held only by the live
\* record that stores it now: a create whose unique values no live record
\* holds (the holder was updated to another value, or deleted) goes on to
\* commit, and an update whose unique values no other live record holds,
\* its own current value included, goes on to commit.
C16_FreedValueAccepted ==
    [][/\ (Begins("create") /\ FreeValueOffered(0)) =>
              (last'.kind = "pending" /\ req'[last'.p].pc = "create_commit")
       /\ (Begins("update") /\ last'.rid \in Stored(last'.tenant, last'.entity)
              /\ FreeValueOffered(last'.rid)) =>
              (last'.kind = "pending" /\ req'[last'.p].pc = "update_commit")
       /\ (req[1].pc \in {"create_commit", "update_commit"}) => last'.kind = "ok"]_vars

\* A create has committed a value that a record held until it was updated to
\* another one, after an update that kept a record's own value.
C16_Witness ==
    /\ last.op = "create" /\ last.kind = "ok"
    /\ \E k \in 1..Len(logs) :
          /\ logs[k].before = Jsonb(last.payload)
          /\ logs[k].after # logs[k].before
    /\ \E k \in 1..Len(logs) : logs[k].after = logs[k].before

\* C17: a rollback(t, e, k) by an admin is answered NotFound and changes
\* nothing when (t, e) has no current schema or its history has no snapshot
\* numbered k, whatever snapshots numbered k other tenants or other entity
\* names have.
C17_RollbackNotFound ==
    [][(/\ Begins("rollback")
        /\ last'.role = "admin"
        /\ \/ \A i \in 1..Len(schemas) :
                 ~(schemas[i].tenant = last'.tenant /\ schemas[i].entity = last'.entity)
           \/ \A k \in Snapshots(last'.tenant, last'.entity) :
                 versions[k].version # last'.tver)
       => (last'.kind = "notfound" /\ req'[last'.p].pc = "idle"
              /\ UNCHANGED <<tables, routes>>)]_vars

\* A rollback to a version number that only another entity name of the same
\* tenant has is answered NotFound though the caller's entity has a current
\* schema.
C17_Witness ==
    /\ last.op = "rollback" /\ last.kind = "notfound"
    /\ \E i \in 1..Len(schemas) :
          schemas[i].tenant = last.tenant /\ schemas[i].entity = last.entity
    /\ \E k \in 1..Len(versions) :
          /\ versions[k].version = last.tver
          /\ versions[k].tenant = last.tenant
          /\ versions[k].entity # last.entity

\* C18: a declare, revise, rollback or set_permissions by a caller whose role
\* is not admin is answered Forbidden and changes no schema, snapshot or
\* permission row, whatever record permissions the role holds.
C18_AdminOnly ==
    [][((\E op \in {"declare", "revise", "rollback", "set_permissions"} : Begins(op))
            /\ last'.role # "admin")
       => (last'.kind = "forbidden" /\ req'[last'.p].pc = "idle"
              /\ UNCHANGED <<tables, routes>>)]_vars

\* Role user, holding a row that allows every record action on a declared
\* entity, is answered Forbidden for a revise, rollback or set_permissions.
C18_Witness ==
    /\ last.op \in {"revise", "rollback", "set_permissions"}
    /\ last.kind = "forbidden"
    /\ last.role = "user"
    /\ \E i \in 1..Len(schemas) :
          schemas[i].tenant = last.tenant /\ schemas[i].entity = last.entity
    /\ \E g \in 1..Len(perms) :
          /\ perms[g].tenant = last.tenant /\ perms[g].entity = last.entity
          /\ perms[g].role = "user" /\ perms[g].can = AllTrue

\* Tenant t has no schema, permission row, record or log entry of its own,
\* as in the initial state.
OwnsNothing(t) ==
    /\ \A i \in 1..Len(schemas) : schemas[i].tenant # t
    /\ \A i \in 1..Len(versions) : versions[i].tenant # t
    /\ \A i \in 1..Len(perms) : perms[i].tenant # t
    /\ \A i \in 1..Len(records) : records[i].tenant # t
    /\ \A i \in 1..Len(logs) : logs[i].tenant # t

\* How the first step of op by a caller of role r is answered in the initial
\* state, where no entity has a route and the tables are empty.
InitialOutcome(op, r) ==
    IF op \in RecordOps THEN "noroute"
    ELSE IF r # "admin" THEN "forbidden"
    ELSE IF op \in {"revise", "rollback"} THEN "notfound"
    ELSE "pending"

\* C19: the outcome of an operation in tenant B's context is the same in any
\* two reachable states that agree on what B owns; taken with the initial
\* state as one of the two: in every state where the caller's tenant owns
\* nothing, an operation is answered as it is in the initial state, whatever
\* other tenants have declared or stored and whatever routes the app has.
C19_NoCrossTenantVisibility ==
    [][(/\ last'.p # 0
        /\ last' # last
        /\ req[last'.p].pc = "idle"
        /\ OwnsNothing(last'.tenant))
       => last'.kind = InitialOutcome(last'.op, last'.role)]_vars

\* The required fields of the list that the payload has no key for, by
\* position.
MissingAt(fields, payload) ==
    {k \in 1..Len(fields) : fields[k].required /\ fields[k].name \notin Keys(payload)}

\* C20 as stated: for every field list and payload, and every field f marked
\* required and absent from the payload, validate fails with the validation
\* error that names f.
C20_MissingRequiredNamed ==
    (last.op = "validate" /\ last.kind = "done") =>
        \A k \in MissingAt(last.fields, last.payload) :
            last.err = Err("missing", last.fields[k].name)

\* C20 amended: when required fields are absent from the payload, validate
\* fails with the missing-field error that names the first of them in the
\* order of the field list, whatever else is wrong with the payload.
C20_FirstMissingRequiredNamed ==
    (last.op = "validate" /\ last.kind = "done"
        /\ MissingAt(last.fields, last.payload) # {}) =>
        \E k \in MissingAt(last.fields, last.payload) :
            /\ \A j \in MissingAt(last.fields, last.payload) : k <= j
            /\ last.err = Err("missing", last.fields[k].name)

\* validate has answered a field list with two required fields, both absent
\* from a payload that has a key the list does not know.
C20_Witness ==
    /\ last.op = "validate" /\ last.kind = "done"
    /\ \E j, k \in MissingAt(last.fields, last.payload) :
          last.fields[j].name # last.fields[k].name
    /\ last.payload # <<>>

\* C21: for an integer or float field, validate accepts a value of the
\* field's type exactly when every declared bound holds inclusively; a
\* bound of 0 is enforced like any other and an undeclared bound imposes
\* nothing.
C21_BoundsInclusive ==
    (last.op = "validate" /\ last.kind = "done" /\ Len(last.fields) = 1
        /\ Len(last.payload) = 1 /\ last.payload[1][1] = last.fields[1].name) =>
        LET f == last.fields[1]
            v == last.payload[1][2]
            tenths == IF v.k = "float" THEN v.n ELSE 10 * v.n
            typed == \/ f.type = "integer" /\ v.k = "int"
                     \/ f.type = "float" /\ v.k \in {"int", "float"}
        IN typed =>
              (last.err = Ok <=>
                  /\ f.min = NoBound \/ 10 * f.min <= tenths
                  /\ f.max = NoBound \/ tenths <= 10 * f.max)

\* validate has rejected a value below a declared minimum of 0, for a field
\* that declares no maximum.
C21_Witness ==
    /\ last.op = "validate" /\ last.kind = "done"
    /\ Len(last.fields) = 1 /\ Len(last.payload) = 1
    /\ last.fields[1].type \in {"integer", "float"}
    /\ last.fields[1].min = 0 /\ last.fields[1].max = NoBound
    /\ last.payload[1][2].k \in {"int", "float"}
    /\ last.payload[1][2].n < 0
    /\ last.err = Err("min", "f")

\* C25: for a field declared string, integer, float or boolean, validate
\* accepts a present value only if its kind is the declared one, an integer
\* also being accepted for float; so a boolean offered for an integer or
\* float field, or a null for a string field, is rejected with a validation
\* error; a relation field accepts any present value.
C25_KindChecked ==
    (last.op = "validate" /\ last.kind = "done" /\ Len(last.fields) = 1
        /\ Len(last.payload) = 1 /\ last.payload[1][1] = last.fields[1].name) =>
        LET f == last.fields[1]
            v == last.payload[1][2]
            declared == \/ f.type = "string" /\ v.k = "str"
                        \/ f.type = "integer" /\ v.k = "int"
                        \/ f.type = "float" /\ v.k \in {"int", "float"}
                        \/ f.type = "boolean" /\ v.k = "bool"
        IN /\ (f.type \in {"string", "integer", "float", "boolean"} /\ ~declared)
                 => (last.err # Ok /\ last.err.field = f.name)
           /\ f.type = "relation" => last.err = Ok

\* The positions of the field list whose value in the payload is not of the
\* declared kind (string or integer, the kinds of the field lists validated).
ViolatingAt(fields, payload) ==
    {k \in 1..Len(fields) :
        /\ fields[k].name \in Keys(payload)
        /\ \/ fields[k].type = "string" /\ Get(payload, fields[k].name).k # "str"
           \/ fields[k].type = "integer" /\ Get(payload, fields[k].name).k # "int"}

\* C24: validate reports one violation, and when the payload has several the
\* one reported is the first in the order of the schema's field list, whatever
\* the order of the payload's keys: with no required field missing and no
\* unknown key, the error names the first field of the list whose value
\* violates its declaration.
C24_FirstInSchemaOrder ==
    (last.op = "validate" /\ last.kind = "done"
        /\ (\A i, j \in 1..Len(last.fields) :
              last.fields[i].name = last.fields[j].name => i = j)
        /\ MissingAt(last.fields, last.payload) = {}
        /\ Keys(last.payload) \subseteq {last.fields[n].name : n \in 1..Len(last.fields)}
        /\ ViolatingAt(last.fields, last.payload) # {}) =>
        \E k \in ViolatingAt(last.fields, last.payload) :
            /\ \A j \in ViolatingAt(last.fields, last.payload) : k <= j
            /\ last.err = Err("type", last.fields[k].name)

\* C26: in every reachable state, table permissions holds at most one row per
\* (tenant, entity name, role), for every order of set_permissions and
\* declare calls.
C26_OnePermissionRowPerTriple ==
    \A i, j \in 1..Len(perms) :
        (/\ perms[i].tenant = perms[j].tenant
         /\ perms[i].entity = perms[j].entity
         /\ perms[i].role = perms[j].role) => i = j

\* The positions in table record_logs of the entries of record rid.
LogsOf(rid) == {i \in 1..Len(logs) : logs[i].record_id = rid}

\* C27: the log entries of a record, in commit order, form a chain: each
\* entry after the first has for before-payload the after-payload of the
\* entry that precedes it, and while the record exists the last entry's
\* after-payload is the record's current payload; also with two updates of
\* the record in flight together.
C27_LogChain ==
    \A rid \in 1..Len(records) :
        /\ \A i, j \in LogsOf(rid) :
              (i < j /\ \A k \in LogsOf(rid) : ~(i < k /\ k < j))
                  => logs[j].before = logs[i].after
        /\ \A i \in LogsOf(rid) :
              (records[rid].live /\ \A k \in LogsOf(rid) : k <= i)
                  => logs[i].after = records[rid].data

\* A live record of (t, e) holds, on a field that fields marks unique, a value
\* of another kind than the one the payload offers and of the same text.
CollidesAcrossKinds(fields, payload, t, e) ==
    \E k \in 1..Len(fields) :
        /\ fields[k].unique
        /\ fields[k].name \in Keys(payload)
        /\ \E j \in Stored(t, e) :
              /\ fields[k].name \in DOMAIN records[j].data
              /\ records[j].data[fields[k].name].k # Get(payload, fields[k].name).k
              /\ {records[j].data[fields[k].name].k, Get(payload, fields[k].name).k}
                    \subseteq {"str", "int", "bool"}
              /\ AsText(records[j].data[fields[k].name])
                    = AsText(Get(payload, fields[k].name))

\* C23: the uniqueness check compares text forms, not typed values: a create
\* past the gate whose payload satisfies the current schema is answered with
\* the uniqueness error when a stored record of the (tenant, entity_name)
\* holds, on a unique field, a value of another kind with the same text as
\* the one offered: the number 1 against the stored string "1", the boolean
\* true against the stored string "true".
C23_TextCollision ==
    [][(/\ Begins("create")
        /\ last'.entity \in routes
        /\ \A g \in GateRows(last'.tenant, last'.entity, last'.role) :
              Permitted(g, "create")
        /\ SchemaRows(last'.tenant, last'.entity) # {}
        /\ \A i \in SchemaRows(last'.tenant, last'.entity) :
              /\ ValidateData(schemas[i].fields, last'.payload) = Ok
              /\ CollidesAcrossKinds(schemas[i].fields, last'.payload,
                                     last'.tenant, last'.entity))
            => last'.kind = "duplicate"]_vars

\* The gate's answer to the request that begins, when every permission row
\* of its triple gives the same one.
GateDenies ==
    \A g \in GateRows(last'.tenant, last'.entity, last'.role) :
        ~Permitted(g, ActionOf(last'.op))
GatePasses ==
    \A g \in GateRows(last'.tenant, last'.entity, last'.role) :
        Permitted(g, ActionOf(last'.op))

\* What the request that begins is answered once it is past the gate and the
\* lookups: the validation error if the payload has one, else the uniqueness
\* error if a record other than except holds one of its unique values, else
\* it goes on to its commit.
AnsweredByChecks(commit_pc, except) ==
    \A i \in SchemaRows(last'.tenant, last'.entity) :
        LET v == ValidateData(schemas[i].fields, last'.payload)
            u == CheckUniques(schemas[i].fields, last'.payload,
                              last'.tenant, last'.entity, except, 1)
        IN IF v # Ok THEN last'.kind = "invalid" /\ last'.err = v
           ELSE IF u # Ok THEN last'.kind = "duplicate" /\ last'.err = u
           ELSE last'.kind = "pending" /\ req'[last'.p].pc = commit_pc

\* C22: create and update run their checks in a fixed order and report the
\* first that fails, committing nothing: create answers Forbidden before
\* NotFound (no current schema) before a validation error before a
\* uniqueness error; update answers Forbidden before NotFound (record
\* absent) before NotFound (no current schema) before a validation error
\* before a uniqueness error.
C22_ChecksInOrder ==
    [][/\ (Begins("create") /\ last'.entity \in routes) =>
            /\ GateDenies => last'.kind = "forbidden"
            /\ (GatePasses /\ SchemaRows(last'.tenant, last'.entity) = {}) =>
                   (last'.kind = "notfound" /\ last'.err = Err("noentity", ""))
            /\ (GatePasses /\ SchemaRows(last'.tenant, last'.entity) # {}) =>
                   AnsweredByChecks("create_commit", 0)
       /\ (Begins("update") /\ last'.entity \in routes) =>
            /\ GateDenies => last'.kind = "forbidden"
            /\ (GatePasses /\ last'.rid \notin Stored(last'.tenant, last'.entity)) =>
                   (last'.kind = "notfound" /\ last'.err = Err("norecord", ""))
            /\ (GatePasses /\ last'.rid \in Stored(last'.tenant, last'.entity)
                    /\ SchemaRows(last'.tenant, last'.entity) = {}) =>
                   (last'.kind = "notfound" /\ last'.err = Err("noentity", ""))
            /\ (GatePasses /\ last'.rid \in Stored(last'.tenant, last'.entity)
                    /\ SchemaRows(last'.tenant, last'.entity) # {}) =>
                   AnsweredByChecks("update_commit", last'.rid)
       /\ ((Begins("create") \/ Begins("update")) /\ last'.kind # "pending") =>
            (UNCHANGED tables /\ req'[last'.p].pc = "idle")]_vars

\* A create is answered with the validation error for a payload that has an
\* unknown key and, on the unique field, a value that a stored record holds.
C22_Witness ==
    /\ last.op = "create" /\ last.kind = "invalid"
    /\ last.err = Err("unknown", "g")
    /\ \E j \in Stored(last.tenant, last.entity) :
          records[j].data.f = Get(last.payload, "f")

====
